---- MODULE Spec2Model ----
(***************************************************************************)
(* Column width utilities of the Columns block (src/unnamed/part_000) and  *)
(* the AutoBlockUninstaller component of the block directory               *)
(* (src/packages/block-directory/src/components/auto-block-uninstaller).   *)
(*                                                                         *)
(* JavaScript values are modelled by tagged records:                       *)
(*   undefined          [t |-> "undefined"]                                *)
(*   NaN                [t |-> "NaN"]                                      *)
(*   a finite number    [t |-> "number", n |-> numerator, d |-> denom]     *)
(*   a string           [t |-> "string", pre |-> p, suf |-> s]             *)
(* A finite number is an exact fraction in lowest terms (d > 0): binary    *)
(* floating point error is not modelled.  A string is its longest numeric  *)
(* prefix p (the number parseFloat reads, NaN when there is none) followed *)
(* by the remaining characters s, a sequence of one-character strings.     *)
(*                                                                         *)
(* Three specifications share the variables: SpecColumns applies one of    *)
(* the utilities that take blocks to a drawn column set, SpecUnits applies *)
(* getWidthWithUnit, and SpecUninstaller runs AutoBlockUninstaller against *)
(* the stores it selects from.                                             *)
(***************************************************************************)
EXTENDS Integers, Sequences, FiniteSets, TLC

VARIABLES
    blocks,                  \* the column blocks handed to the width utilities
    call,                    \* the last utility call: its name, arguments, result
    isSavingPost,            \* core/editor store: a save request is in flight
    isAutosavingPost,        \* core/editor store: that save is an autosave
    storeUnusedBlockTypes,   \* block directory store: getUnusedBlockTypes()
    mounted,                 \* AutoBlockUninstaller has rendered at least once
    shouldRemoveBlockTypes,  \* value captured by the component's last render
    unusedBlockTypes,        \* value captured by the component's last render
    effectDeps,              \* dependency array of the component's last render
    effectPending,           \* the last render's effect is scheduled, not yet run
    lastCalls,               \* calls made by the last run of the effect
    uninstallCount,          \* per block type: uninstalls since the save began
    unregisterCount          \* per block type: unregistrations since the save began

vars == <<blocks, call, isSavingPost, isAutosavingPost, storeUnusedBlockTypes,
          mounted, shouldRemoveBlockTypes, unusedBlockTypes, effectDeps,
          effectPending, lastCalls, uninstallCount, unregisterCount>>

columnVars == <<blocks, call>>
componentVars == <<mounted, shouldRemoveBlockTypes, unusedBlockTypes, effectDeps,
                   effectPending, lastCalls>>
uninstallerVars == <<isSavingPost, isAutosavingPost, storeUnusedBlockTypes,
                     componentVars, uninstallCount, unregisterCount>>

----------------------------------------------------------------------------
(* Bounds of the model *)

MaxBlocks == 3
MaxBlockTypes == 2
MaxDispatchCount == 2

----------------------------------------------------------------------------
(* JavaScript values and arithmetic *)

Abs(x) == IF x < 0 THEN -x ELSE x

RECURSIVE GCD(_, _)
GCD(a, b) == IF b = 0 THEN a ELSE GCD(b, a % b)

Undefined == [t |-> "undefined"]
NaN == [t |-> "NaN"]

\* The finite number n/d (d > 0), in lowest terms.
Num(n, d) == LET g == GCD(Abs(n), d) IN [t |-> "number", n |-> n \div g, d |-> d \div g]

Str(pre, suf) == [t |-> "string", pre |-> pre, suf |-> suf]

Chars(unit) ==
    CASE unit = "%" -> <<"%">>
      [] unit = "px" -> <<"p", "x">>
      [] unit = "em" -> <<"e", "m">>
      [] unit = "rem" -> <<"r", "e", "m">>
      [] unit = "vw" -> <<"v", "w">>

\* Number.isFinite: true of finite numbers only, no coercion.
NumberIsFinite(v) == v.t = "number"

\* ToString: `${ v }`.
JsToString(v) ==
    CASE v.t = "string" -> v
      [] v.t = "number" -> Str(v, <<>>)
      [] v.t = "NaN" -> Str(NaN, <<"N", "a", "N">>)
      [] v.t = "undefined" -> Str(NaN, <<"u", "n", "d", "e", "f", "i", "n", "e", "d">>)

\* parseFloat: the numeric prefix of JsToString( v ).
parseFloat(v) == IF v.t = "number" THEN v ELSE JsToString(v).pre

\* ToNumber, the coercion of Math.min: a string is a number only as a whole.
ToNumber(v) ==
    CASE v.t = "number" -> v
      [] v.t = "NaN" -> NaN
      [] v.t = "undefined" -> NaN
      [] v.t = "string" ->
            IF v.suf # <<>> THEN NaN
            ELSE IF v.pre.t = "number" THEN v.pre ELSE Num(0, 1)

\* ToBoolean, the test of ||.
Truthy(v) ==
    CASE v.t = "number" -> v.n # 0
      [] v.t = "NaN" -> FALSE
      [] v.t = "undefined" -> FALSE
      [] v.t = "string" -> ~(v.pre.t = "NaN" /\ v.suf = <<>>)

\* a + b, a - b on numbers and undefined (no string operand occurs).
JsAdd(a, b) ==
    LET x == ToNumber(a)
        y == ToNumber(b)
    IN  IF x.t = "number" /\ y.t = "number"
        THEN Num(x.n * y.d + y.n * x.d, x.d * y.d) ELSE NaN

JsSub(a, b) ==
    LET x == ToNumber(a)
        y == ToNumber(b)
    IN  IF x.t = "number" /\ y.t = "number"
        THEN Num(x.n * y.d - y.n * x.d, x.d * y.d) ELSE NaN

\* a / k for a positive integer k.
JsDivInt(a, k) ==
    LET x == ToNumber(a)
    IN  IF x.t = "number" THEN Num(x.n, x.d * k) ELSE NaN

Less(a, b) == a.t = "number" /\ b.t = "number" /\ a.n * b.d < b.n * a.d

\* Math.min( a, b ).
MathMin(a, b) ==
    LET x == ToNumber(a)
        y == ToNumber(b)
    IN  IF x.t # "number" \/ y.t # "number" THEN NaN
        ELSE IF Less(y, x) THEN y ELSE x

\* x.toFixed( 2 ): the nearest multiple of 1/100, a tie going away from zero.
toFixed2(x) ==
    LET m == Abs(x.n)
        k == (200 * m + x.d) \div (2 * x.d)
    IN  Str(Num(IF x.n < 0 THEN -k ELSE k, 100), <<>>)

----------------------------------------------------------------------------
(* src/unnamed/part_000 *)

toWidthPrecision(value) ==
    LET unitlessValue == parseFloat(value)
    IN  IF NumberIsFinite(unitlessValue)
        THEN parseFloat(toFixed2(unitlessValue))
        ELSE Undefined

getEffectiveColumnWidth(block, totalBlockCount) ==
    LET width == IF block.attributes.width = Undefined
                 THEN Num(100, totalBlockCount)
                 ELSE block.attributes.width
    IN  toWidthPrecision(width)

\* lodash sumBy over the effective widths: an undefined term is skipped, the
\* sum of no defined term is undefined, and the sum over no block is 0.
RECURSIVE baseSum(_, _, _)
baseSum(bs, totalBlockCount, result) ==
    IF bs = <<>> THEN result
    ELSE LET current == getEffectiveColumnWidth(Head(bs), totalBlockCount)
         IN  baseSum(Tail(bs), totalBlockCount,
                     IF current = Undefined THEN result
                     ELSE IF result = Undefined THEN current
                     ELSE JsAdd(result, current))

getTotalColumnsWidth(bs, totalBlockCount) ==
    IF Len(bs) = 0 THEN Num(0, 1) ELSE baseSum(bs, totalBlockCount, Undefined)

\* reduce with Object.assign: a later block overwrites an earlier clientId.
RECURSIVE columnWidthsReduce(_, _, _)
columnWidthsReduce(bs, totalBlockCount, accumulator) ==
    IF bs = <<>> THEN accumulator
    ELSE LET width == getEffectiveColumnWidth(Head(bs), totalBlockCount)
         IN  columnWidthsReduce(Tail(bs), totalBlockCount,
                                (Head(bs).clientId :> width) @@ accumulator)

\* Mutant: the widths are computed against the number of blocks passed.
getColumnWidths_IgnoresTotal(bs, totalBlockCount) ==
    columnWidthsReduce(bs, Len(bs), <<>>)

getColumnWidths(bs, totalBlockCount) ==
    columnWidthsReduce(bs, totalBlockCount, <<>>)

\* Mutant: the whole difference is added to every column.
getRedistributedColumnWidths_Undivided(bs, availableWidth, totalBlockCount) ==
    LET totalWidth == getTotalColumnsWidth(bs, totalBlockCount)
        difference == JsSub(availableWidth, totalWidth)
        widths == getColumnWidths(bs, totalBlockCount)
    IN  [id \in DOMAIN widths |-> toWidthPrecision(JsAdd(widths[id], difference))]

\* Mutant: the difference is divided by totalBlockCount.
getRedistributedColumnWidths_ByTotalCount(bs, availableWidth, totalBlockCount) ==
    LET totalWidth == getTotalColumnsWidth(bs, totalBlockCount)
        difference == JsSub(availableWidth, totalWidth)
        adjustment == JsDivInt(difference, totalBlockCount)
        widths == getColumnWidths(bs, totalBlockCount)
    IN  [id \in DOMAIN widths |-> toWidthPrecision(JsAdd(widths[id], adjustment))]

getRedistributedColumnWidths(bs, availableWidth, totalBlockCount) ==
    LET totalWidth == getTotalColumnsWidth(bs, totalBlockCount)
        difference == JsSub(availableWidth, totalWidth)
        adjustment == JsDivInt(difference, Len(bs))
        widths == getColumnWidths(bs, totalBlockCount)
    IN  [id \in DOMAIN widths |-> toWidthPrecision(JsAdd(widths[id], adjustment))]

EndsWithPercent(v) ==
    v.t = "string" /\ Len(v.suf) > 0 /\ v.suf[Len(v.suf)] = "%"

\* Mutant: every width is parsed, whatever its suffix.
hasExplicitPercentColumnWidths_ParsesAll(bs) ==
    \A i \in 1..Len(bs) : NumberIsFinite(parseFloat(bs[i].attributes.width))

hasExplicitPercentColumnWidths(bs) ==
    \A i \in 1..Len(bs) :
        LET blockWidth == bs[i].attributes.width
        IN  NumberIsFinite(IF EndsWithPercent(blockWidth)
                           THEN parseFloat(blockWidth)
                           ELSE blockWidth)

\* widths[ clientId ]: undefined for a key the object does not hold.
Lookup(widths, id) == IF id \in DOMAIN widths THEN widths[id] ELSE Undefined

\* lodash merge of { attributes: { width } } into a copy of the block: a source
\* value of undefined is skipped when the copy already holds the key.
mergeWidth(block, width) ==
    [block EXCEPT !.attributes.width = IF width = Undefined THEN @ ELSE width]

getMappedColumnWidths(bs, widths) ==
    [i \in 1..Len(bs) |-> mergeWidth(bs[i], Lookup(widths, bs[i].clientId))]

getWidths(bs, withParsing) ==
    [i \in 1..Len(bs) |->
        LET innerColumnWidth ==
                IF Truthy(bs[i].attributes.width)
                THEN bs[i].attributes.width
                ELSE Num(100, Len(bs))
        IN  IF withParsing THEN parseFloat(innerColumnWidth) ELSE innerColumnWidth]

\* Mutant: the percent unit is not capped at 100.
getWidthWithUnit_Uncapped(width, unit) ==
    LET clamped == IF Less(parseFloat(width), Num(0, 1))
                   THEN Str(Num(0, 1), <<>>)
                   ELSE width
        text == JsToString(clamped)
    IN  Str(text.pre, text.suf \o Chars(unit))

getWidthWithUnit(width, unit) ==
    LET clamped == IF Less(parseFloat(width), Num(0, 1))
                   THEN Str(Num(0, 1), <<>>)
                   ELSE width
        capped == IF unit = "%" THEN MathMin(clamped, Num(100, 1)) ELSE clamped
        text == JsToString(capped)
    IN  Str(text.pre, text.suf \o Chars(unit))

CSS_UNITS == {"%", "px", "em", "rem", "vw"}

----------------------------------------------------------------------------
(* Inputs of the width utilities *)

ClientIds == 1..MaxBlocks

\* Values a column's width attribute takes: unset, numbers, strings with and
\* without a unit, and strings that are no number.
DeclaredWidths ==
    { Undefined,
      Num(0, 1),                      \* 0
      Num(50, 1),                     \* 50
      Num(6667, 200),                 \* 33.335
      Str(Num(40, 1), <<"%">>),       \* "40%"
      Str(Num(60, 1), <<>>),          \* "60"
      Str(NaN, <<"a", "%">>),         \* "a%"
      Str(NaN, <<>>) }                \* ""

Block(id, width) == [clientId |-> id, attributes |-> [width |-> width]]

\* The k-th smallest element of a set of clientIds.
RECURSIVE Nth(_, _)
Nth(S, k) ==
    LET least == CHOOSE x \in S : \A y \in S : x <= y
    IN  IF k = 1 THEN least ELSE Nth(S \ {least}, k - 1)

\* Column sets of at most MaxBlocks blocks.  The editor gives every block a
\* clientId of its own: the clientIds of a set are distinct (and listed in
\* increasing order).
ColumnSets ==
    UNION { { [i \in 1..Cardinality(S) |-> Block(Nth(S, i), widths[i])] :
                widths \in [1..Cardinality(S) -> DeclaredWidths] }
            : S \in SUBSET ClientIds }

\* totalBlockCount: the default (the number of blocks passed) or an explicit
\* count of at least 1.
TotalBlockCounts(bs) == {Len(bs)} \cup (1..(MaxBlocks + 1))

AvailableWidths == { Num(100, 1), Num(90, 1), Num(1001, 30) }

\* Width objects handed to getMappedColumnWidths: any set of clientIds as keys.
WidthObjects == { [id \in S |-> Num(25, 1)] : S \in SUBSET ClientIds }

\* Widths handed to getWidthWithUnit: the multiples of 25 and of 12.5 up to
\* MaxWidthSteps steps either side of zero, NaN, and the strings of the
\* column sets.
MaxWidthSteps == 6
UnitWidths ==
    { Num(k * 25, d) : k \in (-MaxWidthSteps)..MaxWidthSteps, d \in {1, 2} }
    \cup {NaN} \cup { w \in DeclaredWidths : w.t = "string" }

NoCall == [fn |-> "none"]

\* Names of the block types the block directory has installed.
BlockTypeNames == 1..MaxBlockTypes

----------------------------------------------------------------------------
(* One action per exported utility: it applies the function to the blocks  *)
(* and records the call.  The utilities are pure, so a behaviour applies   *)
(* one of them to the inputs drawn by the initial state.                   *)

CallGetTotalColumnsWidth ==
    /\ call = NoCall
    /\ \E totalBlockCount \in TotalBlockCounts(blocks) :
          call' = [fn |-> "getTotalColumnsWidth",
                   totalBlockCount |-> totalBlockCount,
                   ret |-> getTotalColumnsWidth(blocks, totalBlockCount)]
    /\ UNCHANGED <<blocks, uninstallerVars>>

CallGetColumnWidths ==
    /\ call = NoCall
    /\ \E totalBlockCount \in TotalBlockCounts(blocks) :
          call' = [fn |-> "getColumnWidths",
                   totalBlockCount |-> totalBlockCount,
                   ret |-> getColumnWidths(blocks, totalBlockCount)]
    /\ UNCHANGED <<blocks, uninstallerVars>>

CallGetRedistributedColumnWidths ==
    /\ call = NoCall
    /\ \E totalBlockCount \in TotalBlockCounts(blocks) :
       \E availableWidth \in AvailableWidths :
          call' = [fn |-> "getRedistributedColumnWidths",
                   availableWidth |-> availableWidth,
                   totalBlockCount |-> totalBlockCount,
                   ret |-> getRedistributedColumnWidths(blocks, availableWidth,
                                                        totalBlockCount)]
    /\ UNCHANGED <<blocks, uninstallerVars>>

CallHasExplicitPercentColumnWidths ==
    /\ call = NoCall
    /\ call' = [fn |-> "hasExplicitPercentColumnWidths",
                ret |-> hasExplicitPercentColumnWidths(blocks)]
    /\ UNCHANGED <<blocks, uninstallerVars>>

CallGetMappedColumnWidths ==
    /\ call = NoCall
    /\ \E widths \in WidthObjects :
          call' = [fn |-> "getMappedColumnWidths",
                   widths |-> widths,
                   ret |-> getMappedColumnWidths(blocks, widths)]
    /\ UNCHANGED <<blocks, uninstallerVars>>

CallGetWidths ==
    /\ call = NoCall
    /\ \E withParsing \in BOOLEAN :
          call' = [fn |-> "getWidths",
                   withParsing |-> withParsing,
                   ret |-> getWidths(blocks, withParsing)]
    /\ UNCHANGED <<blocks, uninstallerVars>>

CallGetWidthWithUnit ==
    /\ call = NoCall
    /\ \E width \in UnitWidths :
       \E unit \in CSS_UNITS :
          call' = [fn |-> "getWidthWithUnit",
                   width |-> width,
                   unit |-> unit,
                   ret |-> getWidthWithUnit(width, unit)]
    /\ UNCHANGED <<blocks, uninstallerVars>>

UninstallerIdle ==
    /\ isSavingPost = FALSE
    /\ isAutosavingPost = FALSE
    /\ storeUnusedBlockTypes = <<>>
    /\ mounted = FALSE
    /\ shouldRemoveBlockTypes = FALSE
    /\ unusedBlockTypes = <<>>
    /\ effectDeps = <<>>
    /\ effectPending = FALSE
    /\ lastCalls = <<>>
    /\ uninstallCount = [name \in BlockTypeNames |-> 0]
    /\ unregisterCount = [name \in BlockTypeNames |-> 0]

InitColumns ==
    /\ blocks \in ColumnSets
    /\ call = NoCall
    /\ UninstallerIdle

NextColumns ==
    \/ CallGetTotalColumnsWidth
    \/ CallGetColumnWidths
    \/ CallGetRedistributedColumnWidths
    \/ CallHasExplicitPercentColumnWidths
    \/ CallGetMappedColumnWidths
    \/ CallGetWidths

SpecColumns == InitColumns /\ [][NextColumns]_vars

InitUnits ==
    /\ blocks = <<>>
    /\ call = NoCall
    /\ UninstallerIdle

NextUnits == CallGetWidthWithUnit

SpecUnits == InitUnits /\ [][NextUnits]_vars

----------------------------------------------------------------------------
(* packages/block-directory/src/components/auto-block-uninstaller/index.js *)

\* Mutant: an autosave counts as a save.
selectShouldRemoveBlockTypes_AnySave(saving, autosaving) == saving

\* useSelect on core/editor: isSavingPost() && ! isAutosavingPost().
selectShouldRemoveBlockTypes(saving, autosaving) == saving /\ ~autosaving

\* useSelect on the block directory store: getUnusedBlockTypes().
selectUnusedBlockTypes(storeUnused) == storeUnused

\* Mutant: the effect also depends on the list of unused block types.
effectDependencies_WithUnused(should, unused) == <<should, unused>>

\* The dependency array of the effect.
effectDependencies(should, unused) == <<should>>

UninstallCall(blockType) == [fn |-> "uninstallBlockType", name |-> blockType.name]
UnregisterCall(blockType) == [fn |-> "unregisterBlockType", name |-> blockType.name]

\* unusedBlockTypes.forEach: uninstall, then unregister, each block type in turn.
RECURSIVE forEachUnused(_)
forEachUnused(unused) ==
    IF unused = <<>> THEN <<>>
    ELSE <<UninstallCall(Head(unused)), UnregisterCall(Head(unused))>>
         \o forEachUnused(Tail(unused))

\* Mutant: the last unused block type is left installed.
uninstallEffect_SkipsLast(should, unused) ==
    IF should /\ Len(unused) # 0
    THEN forEachUnused(SubSeq(unused, 1, Len(unused) - 1))
    ELSE <<>>

\* The effect callback: the calls it makes, given the values its render captured.
uninstallEffect(should, unused) ==
    IF should /\ Len(unused) # 0 THEN forEachUnused(unused) ELSE <<>>

\* Number of calls of fn on the block type of that name.
CallCount(calls, fn, name) ==
    Cardinality({ k \in 1..Len(calls) : calls[k] = [fn |-> fn, name |-> name] })

Saturate(n) == IF n > MaxDispatchCount THEN MaxDispatchCount ELSE n

\* The counters once the effect has made these calls.
CountsAfter(counts, calls, fn) ==
    [name \in BlockTypeNames |-> Saturate(counts[name] + CallCount(calls, fn, name))]

\* React runs the effect callback of the last committed render, with the
\* values that render captured.
FlushEffect(calls) ==
    /\ lastCalls' = calls
    /\ uninstallCount' = CountsAfter(uninstallCount, calls, "uninstallBlockType")
    /\ unregisterCount' = CountsAfter(unregisterCount, calls, "unregisterBlockType")

\* One render of AutoBlockUninstaller.  React first runs the effect still
\* pending from the previous render; then the selectors are read from the
\* stores, the render is committed, and its effect is scheduled if the
\* component has just mounted or a dependency changed.
Render ==
    LET should == selectShouldRemoveBlockTypes(isSavingPost, isAutosavingPost)
        unused == selectUnusedBlockTypes(storeUnusedBlockTypes)
        deps == effectDependencies(should, unused)
    IN  /\ IF effectPending
           THEN FlushEffect(uninstallEffect(shouldRemoveBlockTypes, unusedBlockTypes))
           ELSE UNCHANGED <<lastCalls, uninstallCount, unregisterCount>>
        /\ mounted' = TRUE
        /\ shouldRemoveBlockTypes' = should
        /\ unusedBlockTypes' = unused
        /\ effectDeps' = deps
        /\ effectPending' = (~mounted \/ deps # effectDeps)
        /\ UNCHANGED <<isSavingPost, isAutosavingPost, storeUnusedBlockTypes,
                       columnVars>>

\* The scheduled effect runs, after the render that scheduled it was committed:
\* the stores may have changed in between.
RunEffect ==
    /\ effectPending
    /\ FlushEffect(uninstallEffect(shouldRemoveBlockTypes, unusedBlockTypes))
    /\ effectPending' = FALSE
    /\ UNCHANGED <<isSavingPost, isAutosavingPost, storeUnusedBlockTypes, mounted,
                   shouldRemoveBlockTypes, unusedBlockTypes, effectDeps, columnVars>>

(* The stores the component selects from.  uninstallCount and              *)
(* unregisterCount count the calls made since the last save began.         *)

SavePost ==
    /\ ~isSavingPost
    /\ isSavingPost' = TRUE
    /\ isAutosavingPost' = FALSE
    /\ uninstallCount' = [name \in BlockTypeNames |-> 0]
    /\ unregisterCount' = [name \in BlockTypeNames |-> 0]
    /\ UNCHANGED <<storeUnusedBlockTypes, componentVars, columnVars>>

AutosavePost ==
    /\ ~isSavingPost
    /\ isSavingPost' = TRUE
    /\ isAutosavingPost' = TRUE
    /\ uninstallCount' = [name \in BlockTypeNames |-> 0]
    /\ unregisterCount' = [name \in BlockTypeNames |-> 0]
    /\ UNCHANGED <<storeUnusedBlockTypes, componentVars, columnVars>>

SaveFinished ==
    /\ isSavingPost
    /\ isSavingPost' = FALSE
    /\ isAutosavingPost' = FALSE
    /\ UNCHANGED <<storeUnusedBlockTypes, componentVars, uninstallCount,
                   unregisterCount, columnVars>>

InUnused(name) ==
    \E k \in 1..Len(storeUnusedBlockTypes) : storeUnusedBlockTypes[k].name = name

\* An installed block type is no longer used in the post.
BlockTypeBecomesUnused ==
    /\ \E name \in BlockTypeNames :
          /\ ~InUnused(name)
          /\ storeUnusedBlockTypes' = Append(storeUnusedBlockTypes, [name |-> name])
    /\ UNCHANGED <<isSavingPost, isAutosavingPost, componentVars, uninstallCount,
                   unregisterCount, columnVars>>

\* A block type leaves the list: it was uninstalled, or is used again.
BlockTypeLeavesUnused ==
    /\ \E name \in BlockTypeNames :
          /\ InUnused(name)
          /\ storeUnusedBlockTypes' =
                SelectSeq(storeUnusedBlockTypes, LAMBDA b : b.name # name)
    /\ UNCHANGED <<isSavingPost, isAutosavingPost, componentVars, uninstallCount,
                   unregisterCount, columnVars>>

InitUninstaller ==
    /\ blocks = <<>>
    /\ call = NoCall
    /\ UninstallerIdle

NextUninstaller ==
    \/ Render
    \/ RunEffect
    \/ SavePost
    \/ AutosavePost
    \/ SaveFinished
    \/ BlockTypeBecomesUnused
    \/ BlockTypeLeavesUnused

\* React runs every effect it has scheduled.
SpecUninstaller ==
    InitUninstaller /\ [][NextUninstaller]_vars /\ WF_vars(RunEffect)

----------------------------------------------------------------------------
(* Properties of the width utilities *)

\* |a - b| <= tolN / tolD, for finite numbers a and b; false of NaN and undefined.
Within(a, b, tolN, tolD) ==
    /\ a.t = "number"
    /\ b.t = "number"
    /\ Abs(a.n * b.d - b.n * a.d) * tolD <= tolN * a.d * b.d

\* Arithmetic sum of the values of a width object (NaN once a value is undefined).
RECURSIVE SumOfValues(_)
SumOfValues(widths) ==
    IF DOMAIN widths = {} THEN Num(0, 1)
    ELSE LET id == CHOOSE k \in DOMAIN widths : TRUE
         IN  JsAdd(widths[id], SumOfValues([k \in DOMAIN widths \ {id} |-> widths[k]]))

AllEffectiveWidthsFinite(bs, totalBlockCount) ==
    \A i \in 1..Len(bs) :
        NumberIsFinite(getEffectiveColumnWidth(bs[i], totalBlockCount))

\* C1: for a non-empty set of n columns whose effective widths are all finite,
\* the widths redistributed with the default totalBlockCount sum to
\* availableWidth within 0.01 * n.
C1_RedistributedSum ==
    ( /\ call.fn = "getRedistributedColumnWidths"
      /\ Len(blocks) > 0
      /\ call.totalBlockCount = Len(blocks)
      /\ AllEffectiveWidthsFinite(blocks, Len(blocks)) )
    => Within(SumOfValues(call.ret), call.availableWidth, Len(blocks), 100)

\* Three or more columns, redistributed to a sum that rounding moved off
\* availableWidth.
C1_Witness ==
    /\ call.fn = "getRedistributedColumnWidths"
    /\ Len(blocks) >= 3
    /\ call.totalBlockCount = Len(blocks)
    /\ AllEffectiveWidthsFinite(blocks, Len(blocks))
    /\ SumOfValues(call.ret) # call.availableWidth

\* A declared width that parses as a finite number once an optional "%" suffix
\* is stripped.
ParsesAfterStrippingPercent(w) ==
    \/ w.t = "number"
    \/ w.t = "string" /\ w.pre.t = "number" /\ w.suf \in {<<>>, <<"%">>}

\* A declared width that is a finite number, or a string that ends in "%" and
\* starts with a number.
NumberOrPercentString(w) ==
    \/ w.t = "number"
    \/ w.t = "string" /\ w.pre.t = "number" /\ w.suf # <<>>
                      /\ w.suf[Len(w.suf)] = "%"

\* C2 (as claimed): hasExplicitPercentColumnWidths is true iff every column's
\* width parses as a finite number after stripping an optional "%" suffix,
\* numeric strings without a suffix included.
C2_Original ==
    call.fn = "hasExplicitPercentColumnWidths"
    => (call.ret <=> \A i \in 1..Len(blocks) :
                        ParsesAfterStrippingPercent(blocks[i].attributes.width))

\* C2 (amended): hasExplicitPercentColumnWidths is true iff every column's
\* width is a finite number or a "%"-suffixed string that starts with a number;
\* a numeric string without the suffix makes it false.
C2_ExplicitPercent ==
    call.fn = "hasExplicitPercentColumnWidths"
    => (call.ret <=> \A i \in 1..Len(blocks) :
                        NumberOrPercentString(blocks[i].attributes.width))

\* Two or more columns, number and "%" string, found explicit.
C2_Witness ==
    /\ call.fn = "hasExplicitPercentColumnWidths"
    /\ call.ret = TRUE
    /\ Len(blocks) >= 2
    /\ \E i \in 1..Len(blocks) : blocks[i].attributes.width.t = "string"
    /\ \E i \in 1..Len(blocks) : blocks[i].attributes.width.t = "number"

\* C3: every column returned by getMappedColumnWidths has width
\* widths[ clientId ], undefined when the clientId is absent from widths.
C3_MappedWidths ==
    call.fn = "getMappedColumnWidths"
    => \A i \in 1..Len(blocks) :
          call.ret[i].attributes.width = Lookup(call.widths, blocks[i].clientId)

\* C4: getWidths returns, in input order, the declared width of every column
\* that declares one (zero included), 100 / count for a column that declares
\* none, parsed as a number when parsing is enabled.
C4_Widths ==
    call.fn = "getWidths"
    => \A i \in 1..Len(blocks) :
          LET declared == blocks[i].attributes.width
              width == IF declared # Undefined THEN declared
                       ELSE Num(100, Len(blocks))
          IN  call.ret[i] = IF call.withParsing THEN parseFloat(width) ELSE width

\* max( 0, width ), capped at 100 for the percent unit.
ClampedWidth(width, unit) ==
    LET floor == IF Less(width, Num(0, 1)) THEN Num(0, 1) ELSE width
    IN  IF unit = "%" /\ Less(Num(100, 1), floor) THEN Num(100, 1) ELSE floor

\* C5: for a numeric width and a supported unit, getWidthWithUnit returns
\* max( 0, width ), capped at 100 for "%", followed by the unit.
C5_WidthWithUnit ==
    (call.fn = "getWidthWithUnit" /\ call.width.t = "number")
    => call.ret = Str(ClampedWidth(call.width, call.unit), Chars(call.unit))

\* 150 with "%" gives "100%".
C5_Witness ==
    /\ call.fn = "getWidthWithUnit"
    /\ call.width = Num(150, 1)
    /\ call.unit = "%"
    /\ call.ret = Str(Num(100, 1), <<"%">>)

\* C6 (as claimed): for every column set and totalBlockCount >= 1,
\* getTotalColumnsWidth equals the sum of the values of getColumnWidths.
C6_Original ==
    (call.fn = "getTotalColumnsWidth" /\ call.totalBlockCount >= 1)
    => call.ret = SumOfValues(getColumnWidths(blocks, call.totalBlockCount))

\* C6 (amended): the same, for column sets whose effective widths are all
\* finite.
C6_TotalIsSumOfWidths ==
    ( /\ call.fn = "getTotalColumnsWidth"
      /\ call.totalBlockCount >= 1
      /\ AllEffectiveWidthsFinite(blocks, call.totalBlockCount) )
    => call.ret = SumOfValues(getColumnWidths(blocks, call.totalBlockCount))

\* Columns without a declared width, summed against a count other than theirs.
C6_Witness ==
    /\ call.fn = "getTotalColumnsWidth"
    /\ Len(blocks) >= 2
    /\ call.totalBlockCount >= 1
    /\ call.totalBlockCount # Len(blocks)
    /\ AllEffectiveWidthsFinite(blocks, call.totalBlockCount)
    /\ \E i \in 1..Len(blocks) : blocks[i].attributes.width = Undefined
    /\ call.ret.t = "number"

\* The redistributed widths of columns i and j differ as their effective
\* widths do, up to 0.01.
SameAdjustment(i, j) ==
    LET wi == getEffectiveColumnWidth(blocks[i], call.totalBlockCount)
        wj == getEffectiveColumnWidth(blocks[j], call.totalBlockCount)
        ri == call.ret[blocks[i].clientId]
        rj == call.ret[blocks[j].clientId]
    IN  Within(JsSub(ri, rj), JsSub(wi, wj), 1, 100)

\* The redistributed width of column i is its effective width plus
\* (availableWidth - totalWidth) / |blocks|, rounded.
AdjustedByColumnCount(i) ==
    LET wi == getEffectiveColumnWidth(blocks[i], call.totalBlockCount)
        total == getTotalColumnsWidth(blocks, call.totalBlockCount)
        exact == JsAdd(wi, JsDivInt(JsSub(call.availableWidth, total), Len(blocks)))
    IN  Within(call.ret[blocks[i].clientId], exact, 1, 200)

----------------------------------------------------------------------------
(* Properties of AutoBlockUninstaller *)

\* The step uninstalls or unregisters the block type of that name.
Dispatches(name) ==
    \/ uninstallCount'[name] > uninstallCount[name]
    \/ unregisterCount'[name] > unregisterCount[name]

\* The step is a render that found a new value of shouldRemoveBlockTypes, or
\* the first render.
RendersNewValue ==
    mounted' /\ (~mounted \/ shouldRemoveBlockTypes' # shouldRemoveBlockTypes)

\* The step runs the effect callback of the last render.
EffectRuns ==
    effectPending /\ (~effectPending' \/ effectDeps' # effectDeps)

\* C7 (as claimed): a block type is uninstalled or unregistered only while a
\* save that is not an autosave is in progress.
C7_Original ==
    [][ \A name \in BlockTypeNames :
           Dispatches(name) => (isSavingPost /\ ~isAutosavingPost) ]_vars

\* C7 (amended): a block type is uninstalled or unregistered only by the
\* effect of a render that found a save that is not an autosave in progress;
\* the effect runs after that render, when the save may be over.
C7_OnlyAfterRenderDuringSave ==
    [][ /\ RendersNewValue =>
              (shouldRemoveBlockTypes' = (isSavingPost /\ ~isAutosavingPost))
        /\ \A name \in BlockTypeNames :
              Dispatches(name) => (effectPending /\ shouldRemoveBlockTypes) ]_vars

\* The effect has uninstalled and unregistered a block type, during a save
\* that is not an autosave.
C7_Witness ==
    /\ isSavingPost /\ ~isAutosavingPost
    /\ shouldRemoveBlockTypes
    /\ ~effectPending
    /\ lastCalls # <<>>
    /\ \E name \in BlockTypeNames :
          uninstallCount[name] = 1 /\ unregisterCount[name] = 1

\* The component has rendered the stores as they are now and run its effect.
UpToDate ==
    /\ mounted
    /\ ~effectPending
    /\ shouldRemoveBlockTypes = (isSavingPost /\ ~isAutosavingPost)
    /\ unusedBlockTypes = storeUnusedBlockTypes

\* C9 (as claimed): while a save that is not an autosave is in progress, every
\* unused block type ends up uninstalled and unregistered, one that became
\* unused after the save started included: once the component has rendered
\* the stores as they are and run its effect, no unused block type is left.
C9_Original ==
    (UpToDate /\ isSavingPost /\ ~isAutosavingPost)
    => \A name \in BlockTypeNames :
          InUnused(name) => uninstallCount[name] > 0 /\ unregisterCount[name] > 0

\* C9 (amended): the effect of a render that found a save that is not an
\* autosave begun is eventually run, and it uninstalls and unregisters every
\* block type that was unused at that render, the uninstall of a block type
\* dispatched before its unregistration.
C9_UninstallsUnusedAtSaveStart ==
    /\ [][ (EffectRuns /\ shouldRemoveBlockTypes) =>
             \A k \in 1..Len(unusedBlockTypes) :
                \E i \in 1..Len(lastCalls') : \E j \in 1..Len(lastCalls') :
                   /\ i < j
                   /\ lastCalls'[i] = [fn |-> "uninstallBlockType",
                                       name |-> unusedBlockTypes[k].name]
                   /\ lastCalls'[j] = [fn |-> "unregisterBlockType",
                                       name |-> unusedBlockTypes[k].name] ]_vars
    /\ [][ RendersNewValue => unusedBlockTypes' = storeUnusedBlockTypes ]_vars
    /\ (effectPending ~> ~effectPending)

\* The effect of a render that found a save begun, with more than one block
\* type unused, has uninstalled and unregistered each of them.
C9_Witness ==
    /\ UpToDate
    /\ isSavingPost /\ ~isAutosavingPost
    /\ Len(unusedBlockTypes) >= 2
    /\ Len(lastCalls) = 2 * Len(unusedBlockTypes)
    /\ \A name \in BlockTypeNames :
          InUnused(name) => uninstallCount[name] = 1 /\ unregisterCount[name] = 1

\* C10: the effect is scheduled only on mount or when shouldRemoveBlockTypes
\* changed, and while one save is in progress each block type is uninstalled
\* and unregistered at most once, whatever renders and list changes happen.
C10_AtMostOncePerSave ==
    /\ [][ (effectPending' /\ componentVars' # componentVars)
           => (~mounted \/ shouldRemoveBlockTypes' # shouldRemoveBlockTypes) ]_vars
    /\ [](\A name \in BlockTypeNames :
             uninstallCount[name] <= 1 /\ unregisterCount[name] <= 1)

\* During one save a block type was uninstalled once, the list of unused block
\* types changed, and the component rendered again without uninstalling.
C10_Witness ==
    /\ UpToDate
    /\ isSavingPost /\ ~isAutosavingPost
    /\ \E name \in BlockTypeNames :
          InUnused(name) /\ uninstallCount[name] = 1 /\ unregisterCount[name] = 1
    /\ \E name \in BlockTypeNames :
          InUnused(name) /\ uninstallCount[name] = 0

====
